---- MODULE Spec2Model ----
(***************************************************************************)
(* Model of src/utils/crawler.py: the per-row enrichment pipeline          *)
(* (process_song and the two source clients behind get_about_section),     *)
(* the retrying HTTP session, the thread pool that runs process_song over  *)
(* the sampled rows, and the final filter that builds `matches`.           *)
(*                                                                         *)
(* Python strings are sequences of one-character strings, so that          *)
(* replace(), lower(), strip() and the `in` substring test are computed    *)
(* and not assumed.  A Python value is a record [t, v]: t is the type tag  *)
(* and v the characters of a str (empty for the other types).              *)
(***************************************************************************)
EXTENDS Integers, Sequences, FiniteSets, TLC

\* ------------------------------------------------------------------ bounds
NRows == 2          \* rows in the sample (150000 in the program)
max_workers == 2    \* ThreadPoolExecutor(max_workers=20), scaled down

\* --------------------------------------------------------- Python values
Str(s) == [t |-> "str", v |-> s]
None == [t |-> "None", v |-> <<>>]
NaN == [t |-> "float", v |-> <<>>]       \* pandas' missing value: float nan
Num == [t |-> "int", v |-> <<>>]         \* a non-zero JSON number
Raised == [t |-> "raise", v |-> <<>>]    \* the call raised instead of returning

IsStr(x) == x.t = "str"

\* bool(x): '' and None are falsy; nan and a non-zero number are truthy
Truthy(x) ==
    CASE x.t = "str" -> x.v # <<>>
      [] x.t = "None" -> FALSE
      [] OTHER -> TRUE

\* ------------------------------------------------------- str operations
UpperCase == <<"A","B","C","D","E","F","G","H","I","J","K","L","M",
               "N","O","P","Q","R","S","T","U","V","W","X","Y","Z">>
LowerCase == <<"a","b","c","d","e","f","g","h","i","j","k","l","m",
               "n","o","p","q","r","s","t","u","v","w","x","y","z">>

LowerChar(c) ==
    IF \E i \in 1..26 : UpperCase[i] = c
    THEN LowerCase[CHOOSE i \in 1..26 : UpperCase[i] = c]
    ELSE c

\* s.lower()
lower(s) == [i \in 1..Len(s) |-> LowerChar(s[i])]

\* s.replace(old, new) for one-character old and new
replace(s, old, new) == [i \in 1..Len(s) |-> IF s[i] = old THEN new ELSE s[i]]

Whitespace == {" ", "\t", "\n", "\r"}

\* s.strip()
strip(s) ==
    LET keep == {i \in 1..Len(s) : s[i] \notin Whitespace}
    IN  IF keep = {} THEN <<>>
        ELSE LET lo == CHOOSE i \in keep : \A j \in keep : i <= j
                 hi == CHOOSE i \in keep : \A j \in keep : j <= i
             IN  SubSeq(s, lo, hi)

\* sub in s
In(sub, s) ==
    \E i \in 0..(Len(s) - Len(sub)) : \A k \in 1..Len(sub) : s[i + k] = sub[k]

\* sep.join(parts)
RECURSIVE join(_, _)
join(sep, parts) ==
    IF parts = <<>> THEN <<>>
    ELSE IF Len(parts) = 1 THEN parts[1]
    ELSE parts[1] \o sep \o join(sep, Tail(parts))

\* the string get_lastfm_about returns when it has no text
Sentinel == <<"A", "b", "o", "u", "t", " ", "s", "e", "c", "t", "i", "o", "n", " ", "n", "o", "t", " ", "a", "v", "a", "i", "l", "a", "b", "l", "e">>

\* ------------------------------------------------------- preprocess_text
\* preprocess_text without its last replace: carriage returns stay.
preprocess_text_KeepsCR(text) ==
    IF Truthy(text)
    THEN IF IsStr(text)
         THEN Str(replace(replace(text.v, ",", " "), "\n", " "))
         ELSE Raised
    ELSE text

\* A truthy non-str (nan, a number) has no .replace: AttributeError.
preprocess_text(text) ==
    IF Truthy(text)
    THEN IF IsStr(text)
         THEN Str(replace(replace(replace(text.v, ",", " "), "\n", " "), "\r", " "))
         ELSE Raised
    ELSE text

\* -------------------------------------------------------- classify_topic
keywords ==
   << [topic |-> <<"l", "o", "v", "e">>,
       words |-> << <<"l", "o", "v", "e">>,
                    <<"h", "e", "a", "r", "t">>,
                    <<"r", "o", "m", "a", "n", "c", "e">>,
                    <<"a", "f", "f", "e", "c", "t", "i", "o", "n">> >>],
      [topic |-> <<"f", "r", "i", "e", "n", "d", "s">>,
       words |-> << <<"f", "r", "i", "e", "n", "d">>,
                    <<"f", "r", "i", "e", "n", "d", "s", "h", "i", "p">>,
                    <<"b", "u", "d", "d", "y">>,
                    <<"p", "a", "l">> >>],
      [topic |-> <<"l", "i", "f", "e">>,
       words |-> << <<"l", "i", "f", "e">>,
                    <<"l", "i", "v", "i", "n", "g">>,
                    <<"e", "x", "i", "s", "t", "e", "n", "c", "e">> >>],
      [topic |-> <<"n", "e", "w", "s">>,
       words |-> << <<"n", "e", "w", "s">>,
                    <<"h", "e", "a", "d", "l", "i", "n", "e">>,
                    <<"r", "e", "p", "o", "r", "t">>,
                    <<"j", "o", "u", "r", "n", "a", "l", "i", "s", "m">> >>],
      [topic |-> <<"h", "o", "l", "i", "d", "a", "y">>,
       words |-> << <<"h", "o", "l", "i", "d", "a", "y">>,
                    <<"v", "a", "c", "a", "t", "i", "o", "n">>,
                    <<"f", "e", "s", "t", "i", "v", "a", "l">> >>],
      [topic |-> <<"f", "r", "i", "e", "n", "d", "s", "h", "i", "p">>,
       words |-> << <<"f", "r", "i", "e", "n", "d", "s", "h", "i", "p">>,
                    <<"c", "o", "m", "p", "a", "n", "i", "o", "n", "s", "h", "i", "p">>,
                    <<"b", "o", "n", "d">> >>],
      [topic |-> <<"w", "a", "r">>,
       words |-> << <<"w", "a", "r">>,
                    <<"b", "a", "t", "t", "l", "e">>,
                    <<"c", "o", "n", "f", "l", "i", "c", "t">> >>],
      [topic |-> <<"p", "e", "a", "c", "e">>,
       words |-> << <<"p", "e", "a", "c", "e">>,
                    <<"h", "a", "r", "m", "o", "n", "y">>,
                    <<"c", "a", "l", "m">> >>],
      [topic |-> <<"c", "h", "a", "r", "a", "c", "t", "e", "r">>,
       words |-> << <<"c", "h", "a", "r", "a", "c", "t", "e", "r">>,
                    <<"p", "e", "r", "s", "o", "n", "a", "l", "i", "t", "y">>,
                    <<"t", "r", "a", "i", "t", "s">> >>] >>

Other == <<"o", "t", "h", "e", "r">>

\* The scan that starts at the end of the table: the last matching topic.
RECURSIVE scan_keywords_LastMatch(_, _)
scan_keywords_LastMatch(k, low) ==
    LET i == Len(keywords) + 1 - k
    IN  IF k > Len(keywords) THEN Other
        ELSE IF \E j \in 1..Len(keywords[i].words) : In(keywords[i].words[j], low)
             THEN keywords[i].topic
             ELSE scan_keywords_LastMatch(k + 1, low)

\* text is a str.  The table is scanned in order with text.lower(); the
\* first topic one of whose words occurs in it is returned.
RECURSIVE scan_keywords(_, _)
scan_keywords(k, low) ==
    IF k > Len(keywords) THEN Other
    ELSE IF \E j \in 1..Len(keywords[k].words) : In(keywords[k].words[j], low)
         THEN keywords[k].topic
         ELSE scan_keywords(k + 1, low)

classify_topic(text) == scan_keywords(1, lower(text))

\* ------------------------------------------------- retrying HTTP session
total == 5                                      \* Retry(total=5)
status_forcelist == {429, 500, 502, 503, 504}   \* Retry(status_forcelist=...)

\* session.get goes through the adapter mounted on "https://" (search_song,
\* and get_genius_about, whose song_url is the https URL of the hit);
\* requests.get in get_lastfm_about builds a fresh session whose default
\* adapter has Retry(0, read=False) and an empty status_forcelist.
\* Retry.total read as the number of attempts: one retry less.
RetryTotal_AsAttempts(call) == IF call \in {"search", "genius"} THEN total - 1 ELSE 0

RetryTotal(call) == IF call \in {"search", "genius"} THEN total ELSE 0

\* A force list with the client errors in it.
Forcelist_WithClientErrors(call) ==
    IF call \in {"search", "genius"} THEN status_forcelist \cup {401, 404} ELSE {}

Forcelist(call) == IF call \in {"search", "genius"} THEN status_forcelist ELSE {}

\* What one attempt of a GET meets: no answer (connection error) or a
\* status with a body.
Statuses == {200, 404, 503}

\* An attempt fails, as Retry sees it, on a connection error or a status of
\* the force list; Retry.increment() lets it be repeated while the
\* remaining total is above zero.
Failing(call, o) == o.err \/ o.status \in Forcelist(call)

\* The outcome of the whole get(): a RequestException (ConnectionError, or
\* RetryError once the retries on a forced status are used up) or the
\* response.
FinalResponse(call, o) ==
    IF Failing(call, o)
    THEN [exc |-> TRUE, status |-> 0, body |-> o.body]
    ELSE [exc |-> FALSE, status |-> o.status, body |-> o.body]

\* ------------------------------------------------------ search_song
\* Bodies of the search endpoint: a JSON document with response.hits, or a
\* JSON document without those keys (an error document), on which
\* response.json()['response']['hits'] raises KeyError.
NoHits == <<>>
Hit(title, artist) == [title |-> title, artist |-> artist, url |-> <<"u">>]
SearchBodies ==
    { [kind |-> "json", hits |-> <<Hit(<<"H", "o">>, <<"A", "l", " ", "B">>)>>],
      [kind |-> "json", hits |-> <<Hit(<<"H", "o">>, <<"A", "l", " ", "B">>), Hit(<<"H", "I", " ", "t", "h", "e", "r", "e">>, <<"A", "l", " ", "B">>)>>],
      [kind |-> "badkeys", hits |-> NoHits] }

RECURSIVE first_hit(_, _, _)
first_hit(hits, song_title, artist_name) ==
    IF hits = <<>> THEN None
    ELSE IF /\ In(lower(song_title), lower(hits[1].title))
            /\ In(lower(artist_name), lower(hits[1].artist))
         THEN Str(hits[1].url)
         ELSE first_hit(Tail(hits), song_title, artist_name)

\* resp is what session.get produced.  Only requests.RequestException is
\* caught; KeyError on the body leaves the function.
search_song(song_title, artist_name, resp) ==
    IF resp.exc THEN None
    ELSE IF resp.status = 200
         THEN IF resp.body.kind = "json"
              THEN first_hit(resp.body.hits, song_title, artist_name)
              ELSE Raised
         ELSE None

\* ------------------------------------------------------ get_genius_about
\* The page as the HTML parser presents it: whether the RichText container
\* is there, and the stripped text of its paragraphs once the links are
\* removed.
GeniusBodies ==
    { [container |-> FALSE, paragraphs |-> <<>>],
      [container |-> TRUE, paragraphs |-> <<>>],
      [container |-> TRUE, paragraphs |-> <<<<"L", "o", "v", "e", ",">>, <<"w", "a", "r">>>>],
      [container |-> TRUE, paragraphs |-> <<<<"A", "b", "o", "u", "t", " ", "s", "e", "c", "t", "i", "o", "n">>, <<"n", "o", "t", " ", "a", "v", "a", "i", "l", "a", "b", "l", "e">>>>] }

get_genius_about(resp) ==
    IF resp.exc THEN None
    ELSE IF resp.status = 200 /\ resp.body.container
         THEN Str(join(<<"\n">>, resp.body.paragraphs))
         ELSE None

\* ------------------------------------------------------ get_lastfm_about
\* Bodies of track.getInfo: no 'track', a track without 'wiki', a wiki with
\* its 'content', or a wiki without 'content' (KeyError).
LastfmBodies ==
    { [kind |-> "notrack", content |-> None],
      [kind |-> "nowiki", content |-> None],
      [kind |-> "nocontent", content |-> None],
      [kind |-> "wiki", content |-> Str(<<"w", "a", "r", ",", " ", "p", "e", "a", "c", "e">>)],
      [kind |-> "wiki", content |-> Str(<<>>)],
      [kind |-> "wiki", content |-> Num] }

get_lastfm_about(resp) ==
    IF resp.exc THEN Str(Sentinel)
    ELSE IF resp.status = 200
         THEN IF resp.body.kind \in {"wiki", "nocontent"}
              THEN IF resp.body.kind = "wiki" THEN resp.body.content ELSE Raised
              ELSE Str(Sentinel)
         ELSE Str(Sentinel)

\* ---------------------------------------------------------- process_song
\* The title test without strip(): a whitespace-only title passes.
valid_title_NoStrip(song_title) == IsStr(song_title) /\ song_title.v # <<>>

\* The title test of process_song: ValueError unless the title is a str
\* with something left after strip().
valid_title(song_title) == IsStr(song_title) /\ strip(song_title.v) # <<>>

\* x or ''
OrEmpty(x) == IF Truthy(x) THEN x ELSE Str(<<>>)

\* process_song storing the about-text as the source delivered it.
process_song_Unnormalized(row, about) ==
    LET about_section == IF Truthy(about)
                         THEN IF IsStr(about) THEN about ELSE Raised
                         ELSE None
    IN  IF about_section = Raised THEN <<>>
        ELSE IF ~IsStr(row.lyrics) THEN <<>>
        ELSE << [row EXCEPT
                   !.about_section = about_section,
                   !.topic = Str(classify_topic(
                                row.lyrics.v \o <<" ">> \o OrEmpty(about_section).v))] >>

\* The rest of process_song once get_about_section has returned about:
\* the returned row in a one-element sequence, or <<>> for None when a
\* statement raised (the except branch).
process_song(row, about) ==
    LET about_section == IF Truthy(about) THEN preprocess_text(about) ELSE None
    IN  IF about_section = Raised THEN <<>>
        ELSE IF ~IsStr(row.lyrics) THEN <<>>
        ELSE << [row EXCEPT
                   !.about_section = about_section,
                   !.topic = Str(classify_topic(
                                row.lyrics.v \o <<" ">> \o OrEmpty(about_section).v))] >>

\* =================================================================== state
VARIABLES
    cpc,        \* where the main script is: "lyrics" (line 136), "columns"
                \* (139-140), "map" (145-147), "filter" (150), "done", or
                \* "aborted" when a statement of the script raised
    sample,     \* sample_df: row position -> row
    results,    \* the list built from executor.map, in submission order
    matches,    \* the filtered list
    queue,      \* the executor's work queue (row positions)
    rpc,        \* per row, its work item: "new" (not submitted), "queued",
                \* then where the pool thread running process_song on it
                \* is ("start", "search", "search_except", "genius",
                \* "genius_except", "lastfm", "resolved"), and "done"
    futres,     \* per row, the future's result: <<>> (None) or <<row>>
    retries,    \* per row, what is left of Retry.total for the request in flight
    attempts,   \* per row, attempts made for the request in flight
    always503,  \* per row, every attempt of the request met status 503
    about,      \* per row, what get_about_section returned (Raised when
                \* get_lastfm_about raised), once it has
    calls,      \* per row, how often each source function was called
    prim,       \* per row, the primary lookup: "pending", "found",
                \* "notfound" or "raised"
    started,    \* per row, how often process_song was started on it
    faulted,    \* per row, an exception reached process_song's except
    outage,     \* no attempt so far was answered with status 200
    pool,       \* the number of threads of the executor
    txt,        \* a text handed to preprocess_text or classify_topic
    op,         \* the function that was applied to txt, "none" before
    out,        \* what that function returned
    req         \* one call of a source function: which, its Retry, the
                \* statuses its attempts met (0: no response), its return

coordVars == <<cpc, sample, results, matches>>
rowVars == <<queue, rpc, futres, retries, attempts, always503, about>>
histVars == <<calls, prim, started, faulted, outage>>
textVars == <<txt, op, out>>
fixedVars == <<pool, textVars, req>>
scriptVars == <<coordVars, rowVars, histVars, pool>>
vars == <<cpc, sample, results, matches, queue, rpc, futres, retries,
          attempts, always503, about, calls, prim, started, faulted, outage,
          pool, txt, op, out, req>>

Rows == 1..NRows

\* the rows a pool thread is running process_song on
Running == {r \in Rows : rpc[r] \notin {"new", "queued", "done"}}

\* no source function is being called on its own
NoRequest == [call |-> "none", left |-> 0, met |-> <<>>, pc |-> "none", ret |-> None]

\* ------------------------------------------------------------------- Init
\* The sampled rows as read_csv delivers them: a missing cell is nan.
Titles == {Str(<<"H", "i">>), Str(<<" ">>), NaN}
Lyrics == {Str(<<"l", "a", ",", "l", "a">>), NaN}

Init ==
    /\ cpc = "lyrics"
    /\ sample \in [Rows -> [id : Rows, title : Titles, artist : {Str(<<"A", "l">>)},
                            lyrics : Lyrics, about_section : {None},
                            topic : {None}]]
    /\ \A r \in Rows : sample[r].id = r
    /\ results = <<>>
    /\ matches = <<>>
    /\ queue = <<>>
    /\ rpc = [r \in Rows |-> "new"]
    /\ futres = [r \in Rows |-> <<>>]
    /\ retries = [r \in Rows |-> 0]
    /\ attempts = [r \in Rows |-> 0]
    /\ always503 = [r \in Rows |-> FALSE]
    /\ about = [r \in Rows |-> None]
    /\ calls = [r \in Rows |-> [search |-> 0, genius |-> 0, lastfm |-> 0]]
    /\ prim = [r \in Rows |-> "pending"]
    /\ started = [r \in Rows |-> 0]
    /\ faulted = [r \in Rows |-> FALSE]
    /\ outage = TRUE
    /\ pool = max_workers
    /\ txt = <<>>
    /\ op = "none"
    /\ out = None
    /\ req = NoRequest

\* ------------------------------------------------------------ main script
\* sample_df['lyrics'] = sample_df['lyrics'].apply(preprocess_text): runs
\* in the main thread before the pool exists; an exception ends the script.
PreprocessLyrics ==
    /\ cpc = "lyrics"
    /\ IF \E r \in Rows : preprocess_text(sample[r].lyrics) = Raised
       THEN /\ cpc' = "aborted"
            /\ UNCHANGED sample
       ELSE /\ cpc' = "columns"
            /\ sample' = [r \in Rows |->
                            [sample[r] EXCEPT !.lyrics = preprocess_text(@)]]
    /\ UNCHANGED <<fixedVars, results, matches, rowVars, histVars>>

\* title.fillna('').astype(str); about_section = None
InitColumns ==
    /\ cpc = "columns"
    /\ sample' = [r \in Rows |->
                    [sample[r] EXCEPT
                       !.title = IF IsStr(@) THEN @ ELSE Str(<<>>),
                       !.about_section = None]]
    /\ cpc' = "map"
    /\ UNCHANGED <<fixedVars, results, matches, rowVars, histVars>>

\* executor.map(process_song, rows) submits one work item per row, in row
\* order.
Submit ==
    /\ cpc = "map"
    /\ \E r \in Rows :
          /\ rpc[r] = "new"
          /\ \A j \in Rows : rpc[j] = "new" => r <= j
          /\ rpc' = [rpc EXCEPT ![r] = "queued"]
          /\ queue' = Append(queue, r)
    /\ UNCHANGED <<fixedVars, coordVars, futres, retries, attempts, always503, about, histVars>>

\* executor.map over a process_song that lets its exception out: reading
\* the result of the future raises it in the main thread.
Collect_Reraise ==
    /\ cpc = "map"
    /\ \A r \in Rows : rpc[r] = "done"
    /\ IF \E r \in Rows : faulted[r]
       THEN cpc' = "aborted" /\ UNCHANGED results
       ELSE cpc' = "filter" /\ results' = [i \in Rows |-> futres[i]]
    /\ UNCHANGED <<fixedVars, sample, matches, rowVars, histVars>>

\* The results gathered as the futures complete, in whatever order that is.
Collect_AsCompleted ==
    /\ cpc = "map"
    /\ \A r \in Rows : rpc[r] = "done"
    /\ \E p \in {f \in [Rows -> Rows] : \A r \in Rows : \E i \in Rows : f[i] = r} :
          results' = [i \in Rows |-> futres[p[i]]]
    /\ cpc' = "filter"
    /\ UNCHANGED <<fixedVars, sample, matches, rowVars, histVars>>

\* results = list(executor.map(...)): the iterator yields the futures'
\* results in submission order, so the list is there once all are done.
Collect ==
    /\ cpc = "map"
    /\ \A r \in Rows : rpc[r] = "done"
    /\ results' = [i \in Rows |-> futres[i]]
    /\ cpc' = "filter"
    /\ UNCHANGED <<fixedVars, sample, matches, rowVars, histVars>>

\* The filter without the sentinel test: every record is kept.
RECURSIVE matches_filter_NotNoneOnly(_)
matches_filter_NotNoneOnly(rs) ==
    IF rs = <<>> THEN <<>>
    ELSE IF rs[1] # <<>>
         THEN <<rs[1][1]>> \o matches_filter_NotNoneOnly(Tail(rs))
         ELSE matches_filter_NotNoneOnly(Tail(rs))

\* matches = [result for result in results if result is not None and
\*            result['about_section'] != 'About section not available']
RECURSIVE matches_filter(_)
matches_filter(rs) ==
    IF rs = <<>> THEN <<>>
    ELSE IF rs[1] # <<>> /\ rs[1][1].about_section # Str(Sentinel)
         THEN <<rs[1][1]>> \o matches_filter(Tail(rs))
         ELSE matches_filter(Tail(rs))

Filter ==
    /\ cpc = "filter"
    /\ matches' = matches_filter(results)
    /\ cpc' = "done"
    /\ UNCHANGED <<fixedVars, sample, results, rowVars, histVars>>

\* missing_about = matches_df[matches_df['about_section'].isnull()]
missing_about == {i \in 1..Len(matches) : matches[i].about_section = None}

\* ---------------------------------------------------------- pool threads
\* A thread that reads the oldest work item and leaves it in the queue.
Take_NoDequeue(r) ==
    /\ queue # <<>>
    /\ r = Head(queue)
    /\ Cardinality(Running) < pool
    /\ rpc' = [rpc EXCEPT ![r] = "start"]
    /\ started' = [started EXCEPT ![r] = @ + 1]
    /\ UNCHANGED <<fixedVars, coordVars, queue, futres, retries, attempts, always503, about>>
    /\ UNCHANGED <<calls, prim, faulted, outage>>

\* A thread for every work item: the oldest is taken whatever is running.
Take_NoLimit(r) ==
    /\ queue # <<>>
    /\ r = Head(queue)
    /\ queue' = Tail(queue)
    /\ rpc' = [rpc EXCEPT ![r] = "start"]
    /\ started' = [started EXCEPT ![r] = @ + 1]
    /\ UNCHANGED <<fixedVars, coordVars, futres, retries, attempts, always503, about>>
    /\ UNCHANGED <<calls, prim, faulted, outage>>

\* A free pool thread (there are pool of them) takes the oldest
\* work item and calls process_song(row).
Take(r) ==
    /\ queue # <<>>
    /\ r = Head(queue)
    /\ Cardinality(Running) < pool
    /\ queue' = Tail(queue)
    /\ rpc' = [rpc EXCEPT ![r] = "start"]
    /\ started' = [started EXCEPT ![r] = @ + 1]
    /\ UNCHANGED <<fixedVars, coordVars, futres, retries, attempts, always503, about>>
    /\ UNCHANGED <<calls, prim, faulted, outage>>

\* process_song returns: the future gets its result and the thread is free.
\* res is <<>> for None; fault tells that the except branch was taken.
Return(r, res, fault) ==
    /\ rpc' = [rpc EXCEPT ![r] = "done"]
    /\ futres' = [futres EXCEPT ![r] = res]
    /\ faulted' = [faulted EXCEPT ![r] = fault]
    /\ retries' = [retries EXCEPT ![r] = 0]
    /\ attempts' = [attempts EXCEPT ![r] = 0]
    /\ always503' = [always503 EXCEPT ![r] = FALSE]

\* A source function is entered: its one request starts with a fresh Retry.
Call(r, call) ==
    /\ rpc' = [rpc EXCEPT ![r] = call]
    /\ calls' = [calls EXCEPT ![r][call] = @ + 1]
    /\ retries' = [retries EXCEPT ![r] = RetryTotal(call)]
    /\ attempts' = [attempts EXCEPT ![r] = 0]
    /\ always503' = [always503 EXCEPT ![r] = TRUE]

\* process_song up to the call of get_about_section, which starts with
\* search_song: an invalid title raises ValueError into the except branch.
Validate(r) ==
    /\ rpc[r] = "start"
    /\ IF valid_title(sample[r].title)
       THEN /\ Call(r, "search")
            /\ UNCHANGED <<about, futres, faulted>>
       ELSE /\ Return(r, <<>>, TRUE)
            /\ UNCHANGED <<about, calls>>
    /\ UNCHANGED <<fixedVars, coordVars, queue, prim, started, outage>>

\* What an attempt can meet, for a request whose 200 bodies are Bodies.
Outcomes(Bodies) ==
    LET any == CHOOSE b \in Bodies : TRUE
    IN  {[err |-> TRUE, status |-> 0, body |-> any]}
        \cup {[err |-> FALSE, status |-> s, body |-> any] : s \in Statuses \ {200}}
        \cup {[err |-> FALSE, status |-> 200, body |-> b] : b \in Bodies}

\* The bookkeeping of one attempt meeting o.
Sent(r, o) ==
    /\ attempts' = [attempts EXCEPT ![r] = @ + 1]
    /\ always503' = [always503 EXCEPT ![r] = @ /\ ~o.err /\ o.status = 503]
    /\ outage' = (outage /\ (o.err \/ o.status # 200))

\* A failing attempt that Retry lets be repeated: the request stays in
\* flight with one retry less.
Retried(r) ==
    /\ retries' = [retries EXCEPT ![r] = @ - 1]
    /\ UNCHANGED <<fixedVars, coordVars, queue, rpc, futres, about, calls, prim, started, faulted>>

\* A failing attempt with no retry left: get() raises a RequestException
\* and the source function is in its except clause.
Excepted(r, handler) ==
    /\ rpc' = [rpc EXCEPT ![r] = handler]
    /\ UNCHANGED <<fixedVars, coordVars, queue, futres, about, retries, calls, prim, started, faulted>>

\* get_about_section once search_song has ended with song_url (Raised when
\* it raised): `if song_url:` calls get_genius_about, otherwise
\* get_lastfm_about is called; an exception passes through to the except
\* branch of process_song.
AfterSearch(r, song_url) ==
    /\ IF song_url = Raised
       THEN /\ Return(r, <<>>, TRUE)
            /\ prim' = [prim EXCEPT ![r] = "raised"]
            /\ UNCHANGED <<about, calls>>
       ELSE /\ IF Truthy(song_url)
               THEN Call(r, "genius") /\ UNCHANGED prim
               ELSE Call(r, "lastfm") /\ prim' = [prim EXCEPT ![r] = "notfound"]
            /\ UNCHANGED <<about, futres, faulted>>
    /\ UNCHANGED <<fixedVars, coordVars, queue, started>>

\* get_about_section without the early return: get_lastfm_about is called
\* whatever get_genius_about returned.
AfterGenius_NoEarlyReturn(r, about_section) ==
    /\ Call(r, "lastfm")
    /\ prim' = [prim EXCEPT ![r] = IF Truthy(about_section) THEN "found" ELSE "notfound"]
    /\ UNCHANGED <<fixedVars, coordVars, queue, futres, about, started, faulted>>

\* get_about_section once get_genius_about has returned about_section:
\* `if about_section:` returns it, otherwise get_lastfm_about is called.
AfterGenius(r, about_section) ==
    /\ IF Truthy(about_section)
       THEN /\ rpc' = [rpc EXCEPT ![r] = "resolved"]
            /\ about' = [about EXCEPT ![r] = about_section]
            /\ prim' = [prim EXCEPT ![r] = "found"]
            /\ retries' = [retries EXCEPT ![r] = 0]
            /\ attempts' = [attempts EXCEPT ![r] = 0]
            /\ always503' = [always503 EXCEPT ![r] = FALSE]
            /\ UNCHANGED calls
       ELSE /\ Call(r, "lastfm")
            /\ prim' = [prim EXCEPT ![r] = "notfound"]
            /\ UNCHANGED about
    /\ UNCHANGED <<fixedVars, coordVars, queue, futres, started, faulted>>

\* get_about_section returns what get_lastfm_about ended with.
AfterLastfm(r, about_section) ==
    /\ rpc' = [rpc EXCEPT ![r] = "resolved"]
    /\ about' = [about EXCEPT ![r] = about_section]
    /\ retries' = [retries EXCEPT ![r] = 0]
    /\ UNCHANGED <<fixedVars, coordVars, queue, futres, calls, prim, started, faulted>>

\* What a source function handles in its except clause.
RequestException == [exc |-> TRUE, status |-> 0, body |-> <<>>]

\* One attempt of session.get(base_url, params=params) in search_song; on
\* a response, search_song runs to its return.
SearchAttempt(r) ==
    /\ rpc[r] = "search"
    /\ \E o \in Outcomes(SearchBodies) :
          IF Failing("search", o)
          THEN /\ Sent(r, o)
               /\ IF retries[r] > 0 THEN Retried(r) ELSE Excepted(r, "search_except")
          ELSE /\ outage' = (outage /\ o.status # 200)
               /\ AfterSearch(r, search_song(sample[r].title.v, sample[r].artist.v,
                                             FinalResponse("search", o)))

\* except requests.RequestException in search_song: log, return None.
SearchExcept(r) ==
    /\ rpc[r] = "search_except"
    /\ AfterSearch(r, search_song(sample[r].title.v, sample[r].artist.v,
                                  RequestException))
    /\ UNCHANGED outage

\* One attempt of session.get(song_url) in get_genius_about; on a
\* response, get_genius_about runs to its return.
GeniusAttempt(r) ==
    /\ rpc[r] = "genius"
    /\ \E o \in Outcomes(GeniusBodies) :
          IF Failing("genius", o)
          THEN /\ Sent(r, o)
               /\ IF retries[r] > 0 THEN Retried(r) ELSE Excepted(r, "genius_except")
          ELSE /\ outage' = (outage /\ o.status # 200)
               /\ AfterGenius(r, get_genius_about(FinalResponse("genius", o)))

\* except requests.RequestException in get_genius_about: log, return None.
GeniusExcept(r) ==
    /\ rpc[r] = "genius_except"
    /\ AfterGenius(r, get_genius_about(RequestException))
    /\ UNCHANGED outage

\* requests.get(url) in get_lastfm_about, which runs to its return.
LastfmAttempt(r) ==
    /\ rpc[r] = "lastfm"
    /\ \E o \in Outcomes(LastfmBodies) :
          /\ Sent(r, o)
          /\ AfterLastfm(r, get_lastfm_about(FinalResponse("lastfm", o)))

\* process_song from the return of get_about_section to its own return.
Finish(r) ==
    /\ rpc[r] = "resolved"
    /\ LET res == IF about[r] = Raised THEN <<>>
                  ELSE process_song(sample[r], about[r])
       IN  Return(r, res, res = <<>>)
    /\ UNCHANGED <<fixedVars, coordVars, queue, about, calls, prim, started, outage>>

Next ==
    \/ PreprocessLyrics
    \/ InitColumns
    \/ Submit
    \/ Collect
    \/ Filter
    \/ \E r \in Rows : Take(r)
    \/ \E r \in Rows : Validate(r)
    \/ \E r \in Rows : SearchAttempt(r)
    \/ \E r \in Rows : SearchExcept(r)
    \/ \E r \in Rows : GeniusAttempt(r)
    \/ \E r \in Rows : GeniusExcept(r)
    \/ \E r \in Rows : LastfmAttempt(r)
    \/ \E r \in Rows : Finish(r)

Spec == Init /\ [][Next]_vars

\* The main thread goes on with the script when it can; the wait for the
\* futures (Collect) ends once all are done.
MainStep ==
    \/ PreprocessLyrics
    \/ InitColumns
    \/ Submit
    \/ Collect
    \/ Filter

\* What a pool thread does for row r up to the return of
\* get_about_section; every request returns or fails.
RowStep(r) ==
    \/ Take(r)
    \/ Validate(r)
    \/ SearchAttempt(r)
    \/ SearchExcept(r)
    \/ GeniusAttempt(r)
    \/ GeniusExcept(r)
    \/ LastfmAttempt(r)

\* The steps Finish(r) takes, by what they do to rpc: Finish(r) is enabled
\* exactly when rpc[r] = "resolved" and is the only action that then
\* changes rpc[r].
Finished(r) ==
    /\ rpc[r] = "resolved"
    /\ rpc' = [rpc EXCEPT ![r] = "done"]

\* The run with the main thread and the pool threads scheduled fairly.
FairSpec ==
    /\ Spec
    /\ WF_vars(MainStep)
    /\ \A r \in Rows : WF_vars(RowStep(r)) /\ WF_rpc(Finished(r))

\* ============================================================== the pool
\* The run with more rows than the executor has threads, as in the script
\* (150000 rows, 20 threads): every executor size below the number of rows.
InitPool ==
    /\ pool \in {n \in 1..max_workers : n < NRows}
    /\ cpc = "lyrics"
    /\ sample \in [Rows -> [id : Rows, title : Titles, artist : {Str(<<"A", "l">>)},
                            lyrics : Lyrics, about_section : {None},
                            topic : {None}]]
    /\ \A r \in Rows : sample[r].id = r
    /\ results = <<>>
    /\ matches = <<>>
    /\ queue = <<>>
    /\ rpc = [r \in Rows |-> "new"]
    /\ futres = [r \in Rows |-> <<>>]
    /\ retries = [r \in Rows |-> 0]
    /\ attempts = [r \in Rows |-> 0]
    /\ always503 = [r \in Rows |-> FALSE]
    /\ about = [r \in Rows |-> None]
    /\ calls = [r \in Rows |-> [search |-> 0, genius |-> 0, lastfm |-> 0]]
    /\ prim = [r \in Rows |-> "pending"]
    /\ started = [r \in Rows |-> 0]
    /\ faulted = [r \in Rows |-> FALSE]
    /\ outage = TRUE
    /\ txt = <<>>
    /\ op = "none"
    /\ out = None
    /\ req = NoRequest

SpecPool == InitPool /\ [][Next]_vars

\* ========================================================= text functions
\* preprocess_text and classify_topic on their own: a text is drawn, and
\* one of the two functions is applied to it.
MaxTokens == 2

Tokens ==
    { <<"f", "r", "i", "e", "n", "d">>, <<"s", "h", "i", "p">>,
      <<"b", "o", "n", "d">>, <<"L", "o", "v", "e">>, <<"l", "i", "f", "e">>,
      <<"n", "e", "w", "s">>, <<"h", "o", "l", "i", "d", "a", "y">>,
      <<"W", "A", "R">>, <<"p", "e", "a", "c", "e">>, <<"t", "r", "a", "i", "t", "s">>,
      <<"x">>, <<",">>, <<"\n">>, <<"\r">>, <<" ">> }

\* the texts made of at most n tokens
RECURSIVE TextsOf(_)
TextsOf(n) ==
    IF n = 0 THEN {<<>>}
    ELSE LET shorter == TextsOf(n - 1)
         IN  shorter \cup {t \o w : t \in shorter, w \in Tokens}

\* the script is not running: its variables keep these values
NoScript ==
    /\ cpc = "none"
    /\ sample = [r \in Rows |-> [id |-> r, title |-> Str(<<>>), artist |-> Str(<<>>),
                                  lyrics |-> Str(<<>>), about_section |-> None,
                                  topic |-> None]]
    /\ results = <<>>
    /\ matches = <<>>
    /\ queue = <<>>
    /\ rpc = [r \in Rows |-> "new"]
    /\ futres = [r \in Rows |-> <<>>]
    /\ retries = [r \in Rows |-> 0]
    /\ attempts = [r \in Rows |-> 0]
    /\ always503 = [r \in Rows |-> FALSE]
    /\ about = [r \in Rows |-> None]
    /\ calls = [r \in Rows |-> [search |-> 0, genius |-> 0, lastfm |-> 0]]
    /\ prim = [r \in Rows |-> "pending"]
    /\ started = [r \in Rows |-> 0]
    /\ faulted = [r \in Rows |-> FALSE]
    /\ outage = TRUE
    /\ pool = max_workers

InitText ==
    /\ NoScript
    /\ txt \in TextsOf(MaxTokens)
    /\ op = "none"
    /\ out = None
    /\ req = NoRequest

\* text = preprocess_text(text)
ApplyPreprocess ==
    /\ op = "none"
    /\ op' = "preprocess_text"
    /\ out' = preprocess_text(Str(txt))
    /\ UNCHANGED <<scriptVars, txt, req>>

\* topic = classify_topic(text)
ApplyClassify ==
    /\ op = "none"
    /\ op' = "classify_topic"
    /\ out' = Str(classify_topic(txt))
    /\ UNCHANGED <<scriptVars, txt, req>>

NextText ==
    \/ ApplyPreprocess
    \/ ApplyClassify

SpecText == InitText /\ [][NextText]_vars

\* ====================================================== one source request
\* One call of search_song, get_genius_about or get_lastfm_about on its
\* own, with every answer its attempts can meet.
ReqStatuses == {200, 401, 404, 429, 503}

Answers(Bodies) ==
    LET any == CHOOSE b \in Bodies : TRUE
    IN  {[err |-> TRUE, status |-> 0, body |-> any]}
        \cup {[err |-> FALSE, status |-> s, body |-> any] : s \in ReqStatuses \ {200}}
        \cup {[err |-> FALSE, status |-> 200, body |-> b] : b \in Bodies}

InitRequest ==
    /\ NoScript
    /\ txt = <<>>
    /\ op = "none"
    /\ out = None
    /\ \E call \in {"search", "genius", "lastfm"} :
          req = [call |-> call, left |-> RetryTotal(call), met |-> <<>>,
                 pc |-> "flight", ret |-> None]

\* One attempt of the request meets o: it is repeated while it fails and
\* Retry has something left; otherwise get() ends and the source function
\* runs to its end with ret (Raised when an exception leaves it).
Attempt(o, ret) ==
    LET met == Append(req.met, IF o.err THEN 0 ELSE o.status)
    IN  /\ req' = IF Failing(req.call, o) /\ req.left > 0
                  THEN [req EXCEPT !.met = met, !.left = @ - 1]
                  ELSE [req EXCEPT !.met = met, !.ret = ret,
                                   !.pc = IF ret = Raised THEN "raised" ELSE "returned"]
        /\ UNCHANGED <<scriptVars, textVars>>

\* search_song(song_title, artist_name)
SearchRequest ==
    /\ req.call = "search" /\ req.pc = "flight"
    /\ \E o \in Answers(SearchBodies) :
          Attempt(o, search_song(<<"H", "i">>, <<"A", "l">>, FinalResponse("search", o)))

\* get_genius_about(song_url)
GeniusRequest ==
    /\ req.call = "genius" /\ req.pc = "flight"
    /\ \E o \in Answers(GeniusBodies) :
          Attempt(o, get_genius_about(FinalResponse("genius", o)))

\* get_lastfm_about(artist_name, song_title)
LastfmRequest ==
    /\ req.call = "lastfm" /\ req.pc = "flight"
    /\ \E o \in Answers(LastfmBodies) :
          Attempt(o, get_lastfm_about(FinalResponse("lastfm", o)))

NextRequest ==
    \/ SearchRequest
    \/ GeniusRequest
    \/ LastfmRequest

SpecRequest == InitRequest /\ [][NextRequest]_vars

\* ================================================================= claims
\* the positions of row r in the final output
InMatches(r) == {i \in 1..Len(matches) : matches[i].id = r}

\* a title that is not a str, or has nothing but whitespace
BlankTitle(title) == ~IsStr(title) \/ \A i \in 1..Len(title.v) : title.v[i] \in Whitespace

PrimaryBusy(r) == rpc[r] \in {"search", "search_except", "genius", "genius_except"}

\* C1: for every row, get_lastfm_about is called only once the primary
\* lookup (search_song, then get_genius_about once search_song is over) is
\* over for the row, and a row whose primary lookup returned a text has no
\* call of get_lastfm_about.
C1_FallbackOrder ==
    \A r \in Rows :
       /\ calls[r].lastfm > 0 =>
             /\ ~PrimaryBusy(r)
             /\ calls[r].search = 1
             /\ prim[r] = "notfound"
       /\ PrimaryBusy(r) => calls[r].lastfm = 0
       /\ calls[r].genius > 0 =>
             calls[r].search = 1 /\ rpc[r] \notin {"search", "search_except"}
       /\ prim[r] = "found" => calls[r].lastfm = 0 /\ calls[r].genius = 1

C1_Witness ==
    \E r, q \in Rows :
       /\ rpc[r] = "done" /\ prim[r] = "found" /\ futres[r] # <<>>
       /\ rpc[q] = "done" /\ prim[q] = "notfound" /\ calls[q].lastfm = 1

\* C2 (as claimed): every row of the final output has a usable
\* about_section, neither None nor the sentinel.
C2_UsableAbout ==
    cpc = "done" =>
       \A i \in 1..Len(matches) :
          /\ matches[i].about_section # None
          /\ matches[i].about_section # Str(Sentinel)

\* C3: once the run is done, a row is in the output exactly when
\* process_song returned a record for it whose about_section is not the
\* sentinel; a row for which both sources had nothing is absent, and a row
\* whose record has an about-text other than the sentinel is present.
C3_FilterCorrect ==
    cpc = "done" =>
       \A r \in Rows :
          /\ InMatches(r) # {} <=>
                (futres[r] # <<>> /\ futres[r][1].about_section # Str(Sentinel))
          /\ (prim[r] = "notfound" /\ about[r] = Str(Sentinel)) => InMatches(r) = {}
          /\ (/\ futres[r] # <<>>
              /\ Truthy(futres[r][1].about_section)
              /\ futres[r][1].about_section # Str(Sentinel)) => InMatches(r) # {}

C3_Witness ==
    /\ cpc = "done"
    /\ \E r, q \in Rows :
          /\ prim[r] = "notfound" /\ about[r] = Str(Sentinel)
          /\ futres[r] # <<>> /\ InMatches(r) = {}
          /\ InMatches(q) # {} /\ Truthy(futres[q][1].about_section)

\* C4: a row whose title is blank or not a str gets None from process_song
\* and no call of search_song, get_genius_about or get_lastfm_about.
C4_BlankTitleRejected ==
    \A r \in Rows :
       BlankTitle(sample[r].title) =>
          /\ calls[r] = [search |-> 0, genius |-> 0, lastfm |-> 0]
          /\ rpc[r] \in {"new", "queued", "start", "done"}
          /\ rpc[r] = "done" => futres[r] = <<>>

C4_Witness ==
    \E r, q \in Rows :
       /\ rpc[r] = "done" /\ started[r] = 1 /\ sample[r].title = Str(<<" ">>)
       /\ rpc[q] = "done" /\ started[q] = 1 /\ sample[q].title = Str(<<>>)

\* C5: a row whose enrichment raised yields None; the exception is not
\* raised in the main script; the other rows run to their end, those that
\* did not raise yield their record, and all are in the result list.
C5_Isolation ==
    /\ \A r \in Rows : faulted[r] => rpc[r] = "done" /\ futres[r] = <<>>
    /\ (\E r \in Rows : faulted[r]) => cpc # "aborted"
    /\ \A r \in Rows : (rpc[r] = "done" /\ ~faulted[r]) => futres[r] # <<>>
    /\ cpc \in {"filter", "done"} =>
          /\ Len(results) = NRows
          /\ \A r \in Rows : rpc[r] = "done" /\ results[r] = futres[r]

C5_Witness ==
    /\ cpc = "done"
    /\ \E r, q \in Rows :
          /\ faulted[r] /\ prim[r] = "raised" /\ results[r] = <<>>
          /\ ~faulted[q] /\ results[q] # <<>>

\* a request of the primary source client that met status 503 at every
\* attempt, is still in flight / has ended in the except clause
In503(r) == rpc[r] \in {"search", "genius"} /\ always503[r]
Exhausted503(r) == rpc[r] \in {"search_except", "genius_except"} /\ always503[r]

\* C6 (as claimed): a request of the primary source client that always
\* meets 503 makes exactly 5 attempts.
C6_FiveAttempts == \A r \in Rows : Exhausted503(r) => attempts[r] = 5

\* C6 (amended): a request of the primary source client that always meets
\* 503 makes exactly total + 1 = 6 attempts, the first and 5 retries, neither
\* fewer nor more; search_song and get_genius_about then return None
\* without raising, and the row goes on to get_lastfm_about.
C6_RetryCeiling ==
    /\ [](\A r \in Rows :
            /\ In503(r) => attempts[r] <= total
            /\ Exhausted503(r) => attempts[r] = total + 1)
    /\ [][\A r \in Rows :
            /\ (In503(r) /\ attempts'[r] = attempts[r] + 1 /\ always503'[r]) =>
                  \/ rpc'[r] = rpc[r] /\ attempts[r] < total
                  \/ Exhausted503(r)' /\ attempts[r] = total
            /\ (Exhausted503(r) /\ rpc'[r] # rpc[r]) =>
                  /\ rpc'[r] = "lastfm"
                  /\ prim'[r] = "notfound"
                  /\ ~faulted'[r]]_vars

C6_Witness ==
    \E r, q \in Rows :
       /\ rpc[r] = "search_except" /\ always503[r] /\ attempts[r] = 6
       /\ rpc[q] = "genius_except" /\ always503[q] /\ attempts[q] = 6

\* C7 (as claimed): whenever the primary lookup of a valid-title row ends
\* without a text, whatever the cause, get_lastfm_about is called exactly
\* once and get_about_section returns its text or the sentinel.
C7_FallbackOnce ==
    \A r \in Rows :
       (rpc[r] \in {"resolved", "done"} /\ prim[r] \in {"notfound", "raised"}) =>
          /\ calls[r].lastfm = 1
          /\ IsStr(about[r])

\* C8 (as claimed): a sample with a row whose lyrics are missing does not
\* make the run abort; the row is dropped and the others are processed.
C8_NullLyricsRowOnly ==
    \A r \in Rows :
       ~IsStr(sample[r].lyrics) =>
          /\ cpc # "aborted"
          /\ cpc = "done" =>
                /\ results[r] = <<>>
                /\ \A q \in Rows : rpc[q] = "done"

\* C9 (as claimed): as long as no request is answered, no row raises into
\* the main script, the run is not aborted, and at its end every
\* valid-title row has the sentinel and the output is empty.
C9_OutageDegrades ==
    outage =>
       /\ cpc # "aborted"
       /\ cpc = "done" =>
             /\ matches = <<>>
             /\ \A r \in Rows :
                   ~BlankTitle(sample[r].title) =>
                      /\ about[r] = Str(Sentinel)
                      /\ futres[r] # <<>>
                      /\ futres[r][1].about_section = Str(Sentinel)

\* C10: every output row is a sampled row (its id, title, artist and
\* lyrics are those of the row of the sample at that position), no sampled
\* row is started more than once, and no row is in the output twice.
C10_SubsetNoDup ==
    /\ \A r \in Rows : started[r] <= 1
    /\ Len(matches) <= NRows
    /\ \A i \in 1..Len(matches) :
          /\ matches[i].id \in Rows
          /\ matches[i].title = sample[matches[i].id].title
          /\ matches[i].artist = sample[matches[i].id].artist
          /\ matches[i].lyrics = sample[matches[i].id].lyrics
    /\ \A i, j \in 1..Len(matches) : i # j => matches[i].id # matches[j].id

C10_Witness ==
    /\ cpc = "done"
    /\ Len(matches) = NRows
    /\ \A r \in Rows : started[r] = 1 /\ InMatches(r) # {}

\* the claimed order of the rules
C11_Order ==
    << <<"l", "o", "v", "e">>, <<"f", "r", "i", "e", "n", "d", "s">>,
       <<"l", "i", "f", "e">>, <<"n", "e", "w", "s">>,
       <<"h", "o", "l", "i", "d", "a", "y">>,
       <<"f", "r", "i", "e", "n", "d", "s", "h", "i", "p">>,
       <<"w", "a", "r">>, <<"p", "e", "a", "c", "e">>,
       <<"c", "h", "a", "r", "a", "c", "t", "e", "r">> >>

\* the rules one of whose keywords occurs in the lower-cased text
C11_Matching(text) ==
    {k \in 1..Len(keywords) :
        \E j \in 1..Len(keywords[k].words) : In(keywords[k].words[j], lower(text))}

\* C11: classify_topic returns, for every text, the label of the first rule
\* in the order love, friends, life, news, holiday, friendship, war, peace,
\* character one of whose keywords is a substring of the lower-cased text,
\* and "other" when no keyword occurs; a text with "friend" that matches
\* no keyword of love is labelled "friends" and not "friendship".
C11_FirstMatch ==
    op = "classify_topic" =>
       LET hit == C11_Matching(txt)
       IN  /\ IsStr(out)
           /\ hit = {} => out.v = <<"o", "t", "h", "e", "r">>
           /\ hit # {} =>
                 \E k \in hit : /\ \A h \in hit : k <= h
                                /\ out.v = C11_Order[k]
           /\ (In(<<"f", "r", "i", "e", "n", "d">>, lower(txt)) /\ 1 \notin hit) =>
                 /\ out.v = <<"f", "r", "i", "e", "n", "d", "s">>
                 /\ out.v # <<"f", "r", "i", "e", "n", "d", "s", "h", "i", "p">>

C11_Witness ==
    /\ op = "classify_topic"
    /\ txt = <<"f", "r", "i", "e", "n", "d", "s", "h", "i", "p">>
    /\ out.v = <<"f", "r", "i", "e", "n", "d", "s">>

\* C12: for every text, preprocess_text returns a text of the same length
\* in which each comma, line feed and carriage return is a space and every
\* other character is as it was; the result has none of the three
\* characters, and preprocess_text of the result is the result.
C12_Normalized ==
    op = "preprocess_text" =>
       /\ IsStr(out)
       /\ Len(out.v) = Len(txt)
       /\ \A i \in 1..Len(txt) :
             out.v[i] = IF txt[i] \in {",", "\n", "\r"} THEN " " ELSE txt[i]
       /\ \A i \in 1..Len(out.v) : out.v[i] \notin {",", "\n", "\r"}
       /\ preprocess_text(out) = out

C12_Witness ==
    /\ op = "preprocess_text"
    /\ txt = <<",", "\r">>
    /\ out = Str(<<" ", " ">>)

\* a text without comma, line feed and carriage return
C13_Clean(x) == IsStr(x) /\ \A i \in 1..Len(x.v) : x.v[i] \notin {",", "\n", "\r"}

\* C13: the about_section of every record process_song returned, and of
\* every output row, is None or a text without comma, line feed and
\* carriage return, whether get_genius_about or get_lastfm_about delivered
\* it; the topic of an output row is that of its lyrics and this
\* normalized text.
C13_AboutNormalized ==
    /\ \A r \in Rows :
          futres[r] # <<>> =>
             \/ futres[r][1].about_section = None
             \/ C13_Clean(futres[r][1].about_section)
    /\ cpc = "done" =>
          \A i \in 1..Len(matches) :
             /\ matches[i].about_section = None \/ C13_Clean(matches[i].about_section)
             /\ matches[i].topic =
                   Str(classify_topic(matches[i].lyrics.v \o <<" ">>
                                      \o OrEmpty(matches[i].about_section).v))

C13_Witness ==
    /\ cpc = "done"
    /\ \E r, q \in Rows :
          /\ prim[r] = "found"
          /\ about[r] = Str(<<"L", "o", "v", "e", ",", "\n", "w", "a", "r">>)
          /\ InMatches(r) # {}
          /\ futres[r][1].about_section = Str(<<"L", "o", "v", "e", " ", " ", "w", "a", "r">>)
          /\ prim[q] = "notfound"
          /\ about[q] = Str(<<"w", "a", "r", ",", " ", "p", "e", "a", "c", "e">>)
          /\ InMatches(q) # {}
          /\ futres[q][1].about_section = Str(<<"w", "a", "r", " ", " ", "p", "e", "a", "c", "e">>)

\* C14 (as claimed): a call of get_lastfm_about whose attempts all met a
\* status of the force list has ended only after the request was repeated
\* up to the ceiling of Retry, and then returns the sentinel.
C14_SecondaryRetried ==
    (/\ req.call = "lastfm"
     /\ req.pc \in {"returned", "raised"}
     /\ \A i \in 1..Len(req.met) : req.met[i] \in {429, 500, 502, 503, 504}) =>
       /\ Len(req.met) >= total
       /\ req.ret = Str(Sentinel)

\* an error status that is not in the claimed list of transient statuses
C15_FinalStatus(st) == st \notin {0, 200, 429, 500, 502, 503, 504}

\* C15: an attempt that is answered with an error status outside 429, 500,
\* 502, 503, 504 is the last of its request; a request whose first answer
\* is such a status makes exactly one attempt; and the source function
\* then returns without raising, None for search_song and
\* get_genius_about, the sentinel for get_lastfm_about.
C15_NeverRetried ==
    /\ \A i \in 1..Len(req.met) :
          C15_FinalStatus(req.met[i]) => i = Len(req.met) /\ req.pc # "flight"
    /\ (req.met # <<>> /\ C15_FinalStatus(req.met[1])) =>
          /\ Len(req.met) = 1
          /\ req.pc = "returned"
          /\ req.ret = IF req.call = "lastfm" THEN Str(Sentinel) ELSE None
    /\ (req.pc \in {"returned", "raised"} /\ C15_FinalStatus(req.met[Len(req.met)])) =>
          /\ req.pc = "returned"
          /\ req.ret = IF req.call = "lastfm" THEN Str(Sentinel) ELSE None

C15_Witness ==
    /\ req.call = "genius"
    /\ req.met = <<404>>
    /\ req.pc = "returned"
    /\ req.ret = None

\* the rows process_song is running on
C16_InFlight == {r \in Rows : rpc[r] \in {"start", "search", "search_except", "genius",
                                          "genius_except", "lastfm", "resolved"}}

C17_AllCollected ==
    <>(/\ cpc \in {"filter", "done"}
       /\ Len(results) = NRows
       /\ \A r \in Rows : started[r] = 1 /\ rpc[r] = "done" /\ results[r] = futres[r])

\* C18: rows are dispatched in sample order, and whatever the order in
\* which the threads finish them, the i-th entry of the result list is the
\* result of the i-th sampled row and the output rows are in the order
\* their rows have in the sample.
C18_DispatchOrder ==
    /\ \A i, j \in 1..Len(queue) : i < j => queue[i] < queue[j]
    /\ cpc \in {"filter", "done"} =>
          /\ Len(results) = NRows
          /\ \A i \in Rows :
                /\ results[i] = futres[i]
                /\ results[i] # <<>> => results[i][1].id = sample[i].id
    /\ \A i, j \in 1..Len(matches) : i < j => matches[i].id < matches[j].id

C18_Witness ==
    /\ cpc = "done"
    /\ Len(results) = NRows
    /\ \E r, q \in Rows :
          /\ r < q
          /\ prim[r] = "notfound" /\ calls[r].lastfm = 1 /\ results[r] # <<>>
          /\ prim[q] = "found" /\ calls[q].lastfm = 0 /\ results[q] # <<>>
          /\ \E i, j \in 1..Len(matches) :
                i < j /\ matches[i].id = r /\ matches[j].id = q


====
